---- MODULE Spec2Model ----
(***************************************************************************)
(* NYC Locker Dashboard (app.py): a Dash application that loads a table of  *)
(* lockers, filters it by five dropdowns, renders a map of the filtered     *)
(* rows and, for the marker last clicked, a timeline of its dated events.   *)
(*                                                                          *)
(* Cells of the table are strings; a missing cell (pandas NaN) and Python's *)
(* None are the two sentinels below.  Latitudes and longitudes are integers *)
(* in 1/100 degree.  A timestamp is the integer yyyymmdd.  A text whose     *)
(* characters matter (the locker size under the regular expression) is a    *)
(* sequence of one-character strings.                                       *)
(***************************************************************************)
EXTENDS Integers, Sequences, FiniteSets, TLC

VARIABLES
    df,           \* the module-level DataFrame: a sequence of rows
    sel,          \* the five dropdown values, in the order of filter_columns
    clickData,    \* map-graph.clickData
    n_clicks,     \* clear-all.n_clicks
    mapFig,       \* map-graph.figure as displayed
    timeline,     \* timeline-container.children as displayed
    cb,           \* per callback: its position, its arguments, its local dff
    locker_size,  \* one cell of df["Locker Size"], as text, while loading
    bubble_size   \* the cell of df["Bubble Size"] derived from it

vars == <<df, sel, clickData, n_clicks, mapFig, timeline, cb, locker_size, bubble_size>>

NaN == "<NaN>"
None == "<None>"

\* Longest locker-size text loaded.
MaxLen == 3
\* Most clicks of the "Clear All Filters" button.
MaxClicks == 2

---------------------------------------------------------------------------
(* Loading: the Bubble Size column.                                        *)

SizeChars == {"S", "M", "L", "X"}

\* A cell of df["Locker Size"] as read_csv gives it: missing, or a text.
NaCell == [na |-> TRUE, s |-> <<>>]
TextCell(s) == [na |-> FALSE, s |-> s]

\* Series.astype(str): a missing cell becomes the text nan.
astype_str(cell) == IF cell.na THEN <<"n", "a", "n">> ELSE cell.s

RECURSIVE first_size_char(_, _)
\* The leftmost position at or after i holding one of S, M, L, X; 0 if none.
first_size_char(s, i) ==
    IF i > Len(s) THEN 0
    ELSE IF s[i] \in SizeChars THEN i
    ELSE first_size_char(s, i + 1)

RECURSIVE run_end(_, _)
\* The last position of the greedy run [SMLX]+ that starts at i.
run_end(s, i) ==
    IF i < Len(s) /\ s[i + 1] \in SizeChars THEN run_end(s, i + 1) ELSE i

\* Series.str.extract(r'([SMLX]+)')[0]: the first match anywhere in the text.
\* No match is NaN, written <<>> here (the pattern matches no empty text).
str_extract(s) ==
    LET i == first_size_char(s, 1)
    IN  IF i = 0 THEN <<>> ELSE SubSeq(s, i, run_end(s, i))

\* Series.map(size_map): <<n>> for a key of the dict, <<>> (NaN) otherwise.
size_map(key) ==
    CASE key = <<"S">> -> <<14>>
      [] key = <<"M">> -> <<22>>
      [] key = <<"L">> -> <<32>>
      [] key = <<"X", "L">> -> <<42>>
      [] OTHER -> <<>>

fillna(v, d) == IF v = <<>> THEN d ELSE v[1]

\* df["Bubble Size"] for one cell of df["Locker Size"].
BubbleSize(cell) == fillna(size_map(str_extract(astype_str(cell))), 10)

\* The characters of the locker sizes the table below holds.
Chars(str) ==
    CASE str = "S" -> TextCell(<<"S">>)
      [] str = "XL" -> TextCell(<<"X", "L">>)
      [] str = "Medium" -> TextCell(<<"M", "e", "d", "i", "u", "m">>)
      [] OTHER -> NaCell

---------------------------------------------------------------------------
(* The table.                                                              *)

\* pandas: elementwise ==, where a missing cell equals nothing.
PdEq(a, b) == a # NaN /\ b # NaN /\ a = b

notnull(v) == v # NaN

Row(ty, lt, bo, ls, st, lat, lon, addr, name, d1, d2, d3, d4) ==
    ("Type" :> ty) @@ ("Location Type" :> lt) @@ ("Borough" :> bo)
    @@ ("Locker Size" :> ls) @@ ("Status" :> st)
    @@ ("Latitude" :> lat) @@ ("longitude" :> lon)
    @@ ("Address" :> addr) @@ ("Locker Name" :> name)
    @@ ("Delivery Date" :> d1) @@ ("Receive Date" :> d2)
    @@ ("Withdraw Date" :> d3) @@ ("Expire Date" :> d4)

\* Lines 13-18: the derived column.
add_bubble_size(row) ==
    row @@ ("Bubble Size" :> BubbleSize(IF row["Locker Size"] = NaN THEN NaCell
                                        ELSE Chars(row["Locker Size"])))

\* pd.read_csv: the rows of LockerNYC_Reservations.csv used here.
read_csv ==
    << Row(NaN, "Residential", "Brooklyn", "S", NaN, 4068, -7394,
           "1 Main St", "Locker A", "2024-03-05", "03/01/2024", NaN, "  "),
       Row(NaN, "Commercial", "Queens", "XL", NaN, 4074, -7380,
           "2 Oak Ave", NaN, NaN, "2024-03-05", "NAN", NaN),
       Row(NaN, "Commercial", "Queens", "Medium", NaN, 4075, -7390,
           "3 Elm Rd", "Locker C", "2024-03-07", "pending", "2024-03-05", NaN) >>

\* Lines 13-18 on every row.
with_bubble_size(rows) == [i \in 1..Len(rows) |-> add_bubble_size(rows[i])]

\* The DataFrame after lines 8-18.
LoadedTable == with_bubble_size(read_csv)

timeline_points ==
    << <<"Delivery", "Delivery Date">>, <<"Receive", "Receive Date">>,
       <<"Withdraw", "Withdraw Date">>, <<"Expire", "Expire Date">> >>

filter_columns == <<"Type", "Location Type", "Borough", "Locker Size", "Status">>

\* Lines 51-54: the options of the dropdown of column col.
options(col) ==
    {"All"} \cup {df[i][col] : i \in {j \in 1..Len(df) : notnull(df[j][col])}}

---------------------------------------------------------------------------
(* filter_df.                                                              *)

RECURSIVE filter_loop(_, _, _)
\* Lines 143-145, from the k-th pair of zip(filter_columns, args) on.
filter_loop(dff, args, k) ==
    IF k > Len(filter_columns) \/ k > Len(args) THEN dff
    ELSE LET col == filter_columns[k]
             v == args[k]
             keep(row) == PdEq(row[col], v)
         IN  filter_loop(IF v \notin {None, "All"} THEN SelectSeq(dff, keep) ELSE dff,
                         args, k + 1)

RECURSIVE filter_loop_unchained(_, _, _)
\* filter_df with every mask applied to df instead of dff: the last one wins.
filter_loop_unchained(dff, args, k) ==
    IF k > Len(filter_columns) \/ k > Len(args) THEN dff
    ELSE LET col == filter_columns[k]
             v == args[k]
             keep(row) == PdEq(row[col], v)
         IN  filter_loop_unchained(IF v \notin {None, "All"} THEN SelectSeq(df, keep) ELSE dff,
                                   args, k + 1)

filter_df_unchained(args) == filter_loop_unchained(df, args, 1)

filter_df(args) == filter_loop(df, args, 1)

---------------------------------------------------------------------------
(* update_map, after its call of filter_df.                                *)

RECURSIVE sum_col(_, _)
sum_col(dff, col) == IF dff = <<>> THEN 0 ELSE Head(dff)[col] + sum_col(Tail(dff), col)

\* Series.mean() of a non-empty column, as the fraction sum / n.
mean(dff, col) == [sum |-> sum_col(dff, col), n |-> Len(dff)]

\* map_center without the test for an empty table.
map_center_no_fallback(dff) ==
    [lat |-> mean(dff, "Latitude"), lon |-> mean(dff, "longitude")]

\* Lines 166-169; the fixed centre is 40.73, -73.98.
map_center(dff) ==
    [lat |-> IF dff # <<>> THEN mean(dff, "Latitude") ELSE [sum |-> 4073, n |-> 1],
     lon |-> IF dff # <<>> THEN mean(dff, "longitude") ELSE [sum |-> -7398, n |-> 1]]

marker(row) ==
    [lat |-> row["Latitude"], lon |-> row["longitude"], color |-> row["Location Type"],
     size |-> row["Bubble Size"], hovertext |-> row["Address"]]

\* Lines 155-173: the figure of the filtered rows.
map_figure(dff) ==
    [kind |-> "figure", markers |-> [i \in 1..Len(dff) |-> marker(dff[i])], center |-> map_center(dff)]

---------------------------------------------------------------------------
(* show_timeline_chart, after its call of filter_df.                       *)

\* The date texts the model reads, and what pd.to_datetime makes of each.
DateTexts == {"2024-03-05", "03/01/2024", "2024-03-07"}

parseable(dt) == dt \in DateTexts

to_datetime(dt) ==
    CASE dt = "2024-03-05" -> 20240305
      [] dt = "03/01/2024" -> 20240301
      [] dt = "2024-03-07" -> 20240307

strip(str) == IF str = "  " THEN "" ELSE str
lower(str) == IF str = "NAN" THEN "nan" ELSE str

\* Line 205.
has_date(dt) == notnull(dt) /\ strip(dt) # "" /\ lower(dt) # "nan"

RECURSIVE collect_timeline(_, _, _)
\* Lines 203-206 from the k-th timeline point on; pd.to_datetime raises on a
\* text it cannot parse, which ends the callback.
collect_timeline(r, k, acc) ==
    IF k > Len(timeline_points) THEN [raised |-> FALSE, data |-> acc]
    ELSE LET label == timeline_points[k][1]
             dt == r[timeline_points[k][2]]
         IN  IF has_date(dt)
             THEN IF parseable(dt)
                  THEN collect_timeline(r, k + 1, Append(acc, <<label, to_datetime(dt)>>))
                  ELSE [raised |-> TRUE, data |-> acc]
             ELSE collect_timeline(r, k + 1, acc)

RECURSIVE insert_sorted(_, _)
\* x after every element whose date is not later than its own.
insert_sorted(sorted, x) ==
    IF sorted = <<>> THEN <<x>>
    ELSE IF Head(sorted)[2] <= x[2] THEN <<Head(sorted)>> \o insert_sorted(Tail(sorted), x)
    ELSE <<x>> \o sorted

RECURSIVE sort_loop(_, _)
sort_loop(sorted, rest) ==
    IF rest = <<>> THEN sorted ELSE sort_loop(insert_sorted(sorted, Head(rest)), Tail(rest))

\* sort_by_date with the sort left out: the order of timeline_points.
sort_by_date_omitted(timeline_data) == timeline_data

\* Line 218: list.sort(key=lambda x: x[1]), a stable sort.
sort_by_date(timeline_data) == sort_loop(<<>>, timeline_data)

get(d, key) == IF key \in DOMAIN d THEN d[key] ELSE None

\* Python's a or b, of values that are None or strings.
py_or(a, b) == IF a \in {None, ""} THEN b ELSE a

\* Lines 210 and 243.
title_of(r) == IF notnull(r["Locker Name"]) THEN r["Locker Name"] ELSE r["Address"]

Prompt == [kind |-> "div", text |-> "Click a marker to see the timeline!"]
NoData == [kind |-> "div", text |-> "No data for this locker."]
NoTimeline(r) ==
    [kind |-> "div", title |-> title_of(r), text |-> "No timeline available for this locker."]
Raised == [kind |-> "raise"]

\* Lines 207-247, of the row r and its collected points.
timeline_of(r, timeline_data) ==
    IF Len(timeline_data) < 2 THEN NoTimeline(r)
    ELSE LET tl == sort_by_date(timeline_data)
         IN  [kind |-> "graph", title |-> title_of(r),
              Step |-> [i \in 1..Len(tl) |-> tl[i][1]],
              Date |-> [i \in 1..Len(tl) |-> tl[i][2]]]

\* resolve_row looking the address up in the whole table.
resolve_row_unfiltered(addr, dff) ==
    LET matches(row) == PdEq(row["Address"], addr) IN SelectSeq(df, matches)

\* Line 197: the rows of the filtered table at the clicked address.
resolve_row(addr, dff) ==
    LET matches(row) == PdEq(row["Address"], addr) IN SelectSeq(dff, matches)

\* Lines 183-247: what the callback returns, or Raised.
timeline_children(click, dff) ==
    IF "points" \notin DOMAIN click \/ click.points = <<>> THEN Prompt
    ELSE LET point == click.points[1]
             addr == py_or(get(point, "hovertext"), get(point, "Address"))
             row == resolve_row(addr, dff)
         IN  IF row = <<>> THEN NoData
             ELSE LET got == collect_timeline(row[1], 1, <<>>)
                  IN  IF got.raised THEN Raised ELSE timeline_of(row[1], got.data)

\* clear_all emptying the dropdowns instead of setting them to "All".
clear_all_to_none(n) == [k \in 1..Len(filter_columns) |-> None]

\* Line 256.
clear_all(n) == [k \in 1..Len(filter_columns) |-> "All"]

---------------------------------------------------------------------------
(* The callbacks as Dash runs them.  A callback is requested when one of   *)
(* its Inputs changes; the request is sent with the Inputs' values of that *)
(* moment; the response sets the Output.  A request made while an earlier  *)
(* one of the same callback is under way supersedes it: the earlier        *)
(* response is dropped.  A callback that raises sets nothing.              *)

Callbacks == {"update_map", "show_timeline_chart", "clear_all"}

Idle == [pc |-> "idle", args |-> <<>>, dff |-> <<>>]
Requested == [pc |-> "requested", args |-> <<>>, dff |-> <<>>]

NoClick == [none |-> TRUE]
NoOutput == [kind |-> "none"]

AllSelected == [k \in 1..Len(filter_columns) |-> "All"]

Quiescent == \A name \in Callbacks : cb[name].pc = "idle"

\* Lines 151 and 179: both renderers take the five dropdown values as Inputs.
filters_changed(c) ==
    [c EXCEPT !["update_map"] = Requested, !["show_timeline_chart"] = Requested]

\* Line 178: only the timeline takes clickData as an Input.
click_changed(c) == [c EXCEPT !["show_timeline_chart"] = Requested]

\* Line 252.
button_clicked(c) == [c EXCEPT !["clear_all"] = Requested]

\* The user picks the option v in the k-th dropdown.
ChangeFilter(k, v) ==
    /\ v # sel[k]
    /\ sel' = [sel EXCEPT ![k] = v]
    /\ cb' = filters_changed(cb)
    /\ UNCHANGED <<df, clickData, n_clicks, mapFig, timeline, locker_size, bubble_size>>

\* The user clicks the i-th marker of the map as displayed.
ClickMarker(i) ==
    /\ mapFig.kind = "figure"
    /\ i \in 1..Len(mapFig.markers)
    /\ clickData' = [points |-> << [hovertext |-> mapFig.markers[i].hovertext] >>]
    /\ clickData' # clickData
    /\ cb' = click_changed(cb)
    /\ UNCHANGED <<df, sel, n_clicks, mapFig, timeline, locker_size, bubble_size>>

\* The user clicks "Clear All Filters".
ClickClear ==
    /\ n_clicks < MaxClicks
    /\ n_clicks' = n_clicks + 1
    /\ cb' = button_clicked(cb)
    /\ UNCHANGED <<df, sel, clickData, mapFig, timeline, locker_size, bubble_size>>

\* Lines 153-154: update_map is called with the dropdown values and filters.
Call_update_map ==
    /\ cb["update_map"].pc = "requested"
    /\ cb' = [cb EXCEPT !["update_map"] =
                [pc |-> "executing", args |-> sel, dff |-> filter_df(sel)]]
    /\ UNCHANGED <<df, sel, clickData, n_clicks, mapFig, timeline, locker_size, bubble_size>>

\* Lines 155-173: update_map returns and the figure is displayed.
Return_update_map ==
    /\ cb["update_map"].pc = "executing"
    /\ mapFig' = map_figure(cb["update_map"].dff)
    /\ cb' = [cb EXCEPT !["update_map"] = Idle]
    /\ UNCHANGED <<df, sel, clickData, n_clicks, timeline, locker_size, bubble_size>>

\* Lines 181-182: show_timeline_chart is called and filters.
Call_show_timeline_chart ==
    /\ cb["show_timeline_chart"].pc = "requested"
    /\ cb' = [cb EXCEPT !["show_timeline_chart"] =
                [pc |-> "executing", args |-> <<clickData, sel>>, dff |-> filter_df(sel)]]
    /\ UNCHANGED <<df, sel, clickData, n_clicks, mapFig, timeline, locker_size, bubble_size>>

\* Lines 183-247: show_timeline_chart returns and its children are displayed,
\* or it raises and the container keeps what it shows.
Return_show_timeline_chart ==
    /\ cb["show_timeline_chart"].pc = "executing"
    /\ LET out == timeline_children(cb["show_timeline_chart"].args[1],
                                    cb["show_timeline_chart"].dff)
       IN  timeline' = IF out = Raised THEN timeline ELSE out
    /\ cb' = [cb EXCEPT !["show_timeline_chart"] = Idle]
    /\ UNCHANGED <<df, sel, clickData, n_clicks, mapFig, locker_size, bubble_size>>

\* Line 255: clear_all is called.
Call_clear_all ==
    /\ cb["clear_all"].pc = "requested"
    /\ cb' = [cb EXCEPT !["clear_all"] = [pc |-> "executing", args |-> <<n_clicks>>, dff |-> <<>>]]
    /\ UNCHANGED <<df, sel, clickData, n_clicks, mapFig, timeline, locker_size, bubble_size>>

\* Line 256: clear_all returns; the five dropdowns are set, which requests
\* the callbacks that take them as Inputs.
Return_clear_all ==
    /\ cb["clear_all"].pc = "executing"
    /\ sel' = clear_all(cb["clear_all"].args[1])
    /\ cb' = filters_changed([cb EXCEPT !["clear_all"] = Idle])
    /\ UNCHANGED <<df, clickData, n_clicks, mapFig, timeline, locker_size, bubble_size>>

\* The page as first served: the layout of lines 132-138, both renderers
\* requested (clear_all has prevent_initial_call).
Init ==
    /\ df = LoadedTable
    /\ sel = AllSelected
    /\ clickData = NoClick
    /\ n_clicks = 0
    /\ mapFig = NoOutput
    /\ timeline = NoOutput
    /\ cb = [name \in Callbacks |-> IF name = "clear_all" THEN Idle ELSE Requested]
    /\ locker_size = NaCell
    /\ bubble_size = <<>>

Next ==
    \/ \E k \in 1..Len(filter_columns) : \E v \in options(filter_columns[k]) : ChangeFilter(k, v)
    \/ \E i \in 1..Len(df) : ClickMarker(i)
    \/ ClickClear
    \/ Call_update_map
    \/ Return_update_map
    \/ Call_show_timeline_chart
    \/ Return_show_timeline_chart
    \/ Call_clear_all
    \/ Return_clear_all

Spec == Init /\ [][Next]_vars

---------------------------------------------------------------------------
(* update_map called with any five arguments: a dropdown value, the        *)
(* wildcard, None, or a value no row holds.                                *)

ArgValues(col) == options(col) \cup {None, "Other"}

FilterInit ==
    /\ df = LoadedTable
    /\ sel \in {a \in [1..Len(filter_columns) -> UNION {ArgValues(filter_columns[k]) :
                                                      k \in 1..Len(filter_columns)}] :
                  \A k \in 1..Len(filter_columns) : a[k] \in ArgValues(filter_columns[k])}
    /\ clickData = NoClick
    /\ n_clicks = 0
    /\ mapFig = NoOutput
    /\ timeline = NoOutput
    /\ cb = [name \in Callbacks |-> IF name = "update_map" THEN Requested ELSE Idle]
    /\ locker_size = NaCell
    /\ bubble_size = <<>>

FilterNext == Call_update_map \/ Return_update_map

SpecFilter == FilterInit /\ [][FilterNext]_vars

---------------------------------------------------------------------------
(* show_timeline_chart called for any click on a table whose first row     *)
(* holds any four date cells.                                              *)

DateCells == DateTexts \cup {NaN, "  ", "NAN", "pending"}

Clicks ==
    { NoClick,
      [points |-> <<>>],
      [points |-> << [hovertext |-> "1 Main St"] >>],
      [points |-> << [Address |-> "1 Main St"] >>],
      [points |-> << [hovertext |-> "9 Gone St"] >>] }

TimelineInit ==
    /\ \E d1 \in DateCells, d2 \in DateCells, d3 \in DateCells, d4 \in DateCells :
       \E name \in {NaN, "Locker A"} :
          df = with_bubble_size(
                      << Row(NaN, "Residential", "Brooklyn", "S", NaN, 4068, -7394,
                             "1 Main St", name, d1, d2, d3, d4),
                         read_csv[2] >>)
    /\ sel \in {AllSelected, [AllSelected EXCEPT ![3] = "Queens"]}
    /\ clickData \in Clicks
    /\ n_clicks = 0
    /\ mapFig = NoOutput
    /\ timeline = NoOutput
    /\ cb = [name \in Callbacks |-> IF name = "show_timeline_chart" THEN Requested ELSE Idle]
    /\ locker_size = NaCell
    /\ bubble_size = <<>>

TimelineNext == Call_show_timeline_chart \/ Return_show_timeline_chart

SpecTimeline == TimelineInit /\ [][TimelineNext]_vars

---------------------------------------------------------------------------
(* Lines 13-18 on one cell of df["Locker Size"] holding any short text.    *)

Alphabet == SizeChars \cup {"e", " "}

Texts == UNION {[1..n -> Alphabet] : n \in 0..MaxLen}

SizeInit ==
    /\ df = <<>>
    /\ sel = AllSelected
    /\ clickData = NoClick
    /\ n_clicks = 0
    /\ mapFig = NoOutput
    /\ timeline = NoOutput
    /\ cb = [name \in Callbacks |-> Idle]
    /\ locker_size \in {NaCell} \cup {TextCell(t) : t \in Texts}
    /\ bubble_size = <<>>

derive_bubble_size ==
    /\ bubble_size = <<>>
    /\ bubble_size' = <<BubbleSize(locker_size)>>
    /\ UNCHANGED <<df, sel, clickData, n_clicks, mapFig, timeline, cb, locker_size>>

SizeNext == derive_bubble_size

SpecSize == SizeInit /\ [][SizeNext]_vars

---------------------------------------------------------------------------
(* What the properties below speak of, stated without the code's loops.    *)

IsWildcard(v) == v \in {None, "All"}

\* The rows that equal the selection in every column with a selection.
Matching(args) ==
    {i \in 1..Len(df) :
        \A k \in 1..Len(filter_columns) :
            IsWildcard(args[k]) \/ df[i][filter_columns[k]] = args[k]}

NthIndex(S, j) == CHOOSE i \in S : Cardinality({x \in S : x <= i}) = j

\* The rows of df at the indices S, in the order of df.
RowsAt(S) == [j \in 1..Cardinality(S) |-> df[NthIndex(S, j)]]

RECURSIVE SumOver(_, _)
SumOver(S, col) ==
    IF S = {} THEN 0
    ELSE LET i == CHOOSE x \in S : TRUE IN df[i][col] + SumOver(S \ {i}, col)

Clicked == "points" \in DOMAIN clickData /\ clickData.points # <<>>

ClickedAddress ==
    py_or(get(clickData.points[1], "hovertext"), get(clickData.points[1], "Address"))

\* The rows of the current filtered table at the clicked address.
Selected == {i \in Matching(sel) : df[i]["Address"] = ClickedAddress}

SelectedRow == df[CHOOSE i \in Selected : \A x \in Selected : i <= x]

TimelineIdle == cb["show_timeline_chart"].pc = "idle"

LabelOf(k) == timeline_points[k][1]
DateOf(r, k) == r[timeline_points[k][2]]

\* The events of r whose cell is there and not blank.
Present(r) == {k \in 1..Len(timeline_points) : has_date(DateOf(r, k))}

\* The events of r whose cell is there, not blank and a date.
Retained(r) == {k \in Present(r) : parseable(DateOf(r, k))}

ShowsLocker(r) ==
    /\ "title" \in DOMAIN timeline
    /\ timeline.title = title_of(r)
    /\ \/ timeline = NoTimeline(r)
       \/ timeline.kind = "graph"

\* The arguments filter_df was called with by the callback name.
FilterArgs(name) == IF name = "update_map" THEN cb[name].args ELSE cb[name].args[2]

---------------------------------------------------------------------------
(* C1.  filter_df returns exactly the rows of the table that equal the     *)
(* selection in every column whose selection is neither "All" nor None,    *)
(* in the table's order, and leaves the table as loaded.                   *)

C1_FilterIsConjunction ==
    \A name \in {"update_map", "show_timeline_chart"} :
        cb[name].pc = "executing" =>
            /\ cb[name].dff = RowsAt(Matching(FilterArgs(name)))
            /\ df = LoadedTable

\* None, three selections that one row meets, and the wildcard.
C1_Witness ==
    /\ cb["update_map"].pc = "executing"
    /\ cb["update_map"].args = <<None, "Commercial", "Queens", "XL", "All">>
    /\ Len(cb["update_map"].dff) = 1
    /\ cb["update_map"].dff[1]["Address"] = "2 Oak Ave"

C3_ResetRestoresAll ==
    [][Return_clear_all =>
          /\ \A k \in 1..Len(filter_columns) : sel'[k] = "All"
          /\ Len(sel') = Len(filter_columns)
          /\ (filter_df(sel) = df)']_vars

\* The button was clicked, the selections are all "All" and both renderers
\* are requested, while the map still shows the rows of an earlier filter.
C3_Witness ==
    /\ n_clicks > 0
    /\ cb["clear_all"].pc = "idle"
    /\ sel = AllSelected
    /\ filter_df(sel) = df
    /\ cb["update_map"].pc = "requested"
    /\ cb["show_timeline_chart"].pc = "requested"
    /\ mapFig.kind = "figure"
    /\ Len(mapFig.markers) < Len(df)

\* The words of a text: its maximal runs of letters.
Letters == SizeChars \cup {"e"}

IsWord(s, i, j) ==
    /\ 1 <= i /\ i <= j /\ j <= Len(s)
    /\ \A k \in i..j : s[k] \in Letters
    /\ i = 1 \/ s[i - 1] \notin Letters
    /\ j = Len(s) \/ s[j + 1] \notin Letters

Words(s) == {w \in (1..Len(s)) \X (1..Len(s)) : IsWord(s, w[1], w[2])}

WordText(s, w) == SubSeq(s, w[1], w[2])

SizeOfWord(t) ==
    CASE t = <<"S">> -> 14
      [] t = <<"M">> -> 22
      [] t = <<"L">> -> 32
      [] t = <<"X", "L">> -> 42
      [] OTHER -> 10

SizeWords(s) == {w \in Words(s) : SizeOfWord(WordText(s, w)) # 10}

(* C4 as claimed.  The Bubble Size is 14, 22, 32 or 42 when the leading    *)
(* run of letters of the text is S, M, L or XL; it is 10 for a missing     *)
(* cell and for a text with none of the letters S, M, L, X; and text       *)
(* around the one size word of a text does not change its result.          *)
C4_Claim ==
    bubble_size # <<>> =>
        LET s == locker_size.s
            got == bubble_size[1]
        IN  /\ locker_size.na => got = 10
            /\ (\A k \in 1..Len(s) : s[k] \notin SizeChars) => got = 10
            /\ \A w \in SizeWords(s) :
                  (\A v \in Words(s) : w[1] <= v[1]) => got = SizeOfWord(WordText(s, w))
            /\ \A w \in SizeWords(s) :
                  SizeWords(s) = {w} => got = SizeOfWord(WordText(s, w))

(* C5.  The events of a chart are in ascending order of their timestamps:  *)
(* of two events the one with the earlier timestamp comes first, whatever  *)
(* the order of the labels; each is an event of the selected row with the  *)
(* timestamp its cell parses to.                                           *)
C5_TimelineChronological ==
    timeline.kind = "graph" =>
        LET n == Len(timeline.Date)
        IN  /\ Len(timeline.Step) = n
            /\ \A i \in 1..n : \A j \in 1..n :
                  timeline.Date[i] < timeline.Date[j] => i < j
            /\ \A i \in 1..n : \E k \in Retained(SelectedRow) :
                  /\ timeline.Step[i] = LabelOf(k)
                  /\ timeline.Date[i] = to_datetime(DateOf(SelectedRow, k))

\* Four events whose dates are not in the order of their labels.
C5_Witness ==
    /\ timeline.kind = "graph"
    /\ timeline.Step = <<"Receive", "Withdraw", "Delivery", "Expire">>
    /\ timeline.Date = <<20240301, 20240305, 20240307, 20240307>>

(* C6 as claimed.  For a click that resolves to a row of the filtered      *)
(* table: with fewer than two of the four timestamps present (there, not   *)
(* blank, a date), the callback returns the "No timeline available"        *)
(* placeholder headed by the locker's name (its address when the name is   *)
(* missing); it returns a chart exactly when two or more are present.      *)
C6_Claim ==
    (TimelineIdle /\ Clicked /\ Selected # {}) =>
        LET n == Cardinality(Retained(SelectedRow))
        IN  /\ n < 2 => timeline = NoTimeline(SelectedRow)
            /\ timeline.kind = "graph" <=> n >= 2

(* C7 as claimed.  For a click that resolves to a row, the callback does   *)
(* not end in an error, and the events it retains are exactly those whose  *)
(* timestamp is present, not blank and parseable.                          *)
C7_Claim ==
    (TimelineIdle /\ Clicked /\ Selected # {}) =>
        LET kept == Retained(SelectedRow)
        IN  /\ timeline # NoOutput
            /\ IF Cardinality(kept) >= 2
               THEN /\ timeline.kind = "graph"
                    /\ {timeline.Step[i] : i \in 1..Len(timeline.Step)}
                          = {LabelOf(k) : k \in kept}
               ELSE timeline = NoTimeline(SelectedRow)

(* C8.  update_map returns a figure for any arguments: centred at the mean *)
(* latitude and longitude of the filtered rows, one marker a row, when     *)
(* there are any, and at 40.73, -73.98 with no marker when there are none. *)
C8_MapCentre ==
    cb["update_map"].pc = "idle" =>
        /\ mapFig.kind = "figure"
        /\ LET M == Matching(sel)
               c == mapFig.center
           IN  IF M = {}
               THEN /\ mapFig.markers = <<>>
                    /\ c.lat.n = 1 /\ c.lat.sum = 4073
                    /\ c.lon.n = 1 /\ c.lon.sum = -7398
               ELSE /\ Len(mapFig.markers) = Cardinality(M)
                    /\ c.lat.n > 0 /\ c.lon.n > 0
                    /\ c.lat.sum * Cardinality(M) = SumOver(M, "Latitude") * c.lat.n
                    /\ c.lon.sum * Cardinality(M) = SumOver(M, "longitude") * c.lon.n

\* Two selections no row meets together.
C8_Witness ==
    /\ cb["update_map"].pc = "idle"
    /\ sel[2] = "Residential"
    /\ sel[3] = "Queens"
    /\ Matching(sel) = {}
    /\ mapFig.kind = "figure"
    /\ mapFig.markers = <<>>

(* C9 as claimed.  Once every requested callback has run, the map shown is *)
(* the figure of the table filtered by the current selections and the      *)
(* timeline shown is what show_timeline_chart makes of the current         *)
(* selections and the last click.                                          *)
C9_Claim ==
    Quiescent =>
        /\ mapFig = map_figure(RowsAt(Matching(sel)))
        /\ timeline = timeline_children(clickData, RowsAt(Matching(sel)))

(* C10 as claimed.  A filter change and the reset leave the last click as  *)
(* it is; and when the timeline shows "No data for this locker." and the   *)
(* callback then runs on selections that include the clicked locker again, *)
(* the timeline shows that locker: its chart or its "No timeline           *)
(* available" placeholder.                                                 *)
C10_Claim ==
    [][/\ (Return_clear_all \/ sel' # sel) => clickData' = clickData
       /\ ( /\ Return_show_timeline_chart
            /\ cb["show_timeline_chart"].args = <<clickData, sel>>
            /\ timeline = NoData
            /\ Clicked
            /\ Selected # {} ) => ShowsLocker(SelectedRow)']_vars

====
